---- MODULE Spec2Model ----
(***************************************************************************)
(* Model of the restaurant-order game backend (backend/app/main.py).       *)
(*                                                                         *)
(* The request handlers are asyncio coroutines: a handler runs atomically  *)
(* from its start, or from the completion of an awaited generation call,   *)
(* to its next await or to its end.  Each such stretch is one action.      *)
(* The generation client is an external collaborator: the outcome of a     *)
(* call (it raises, it returns content that does not parse, it returns a   *)
(* parsed value) is an input of the action that resumes the handler.       *)
(*                                                                         *)
(* Numbers.  Python floats are modelled by exact scaled integers:          *)
(*   money, prices, tips   in units of 1/1000 cent (MoneyPerCent per cent) *)
(*   tip_tendency          in tenths                                       *)
(*   reputation            in twentieths of a point (RepScale per point)   *)
(*   calculate_satisfaction in 1/2520 of a point (SatScale per point,      *)
(*                          2520 = lcm of the patience thresholds 1..10)   *)
(* The serve path's satisfaction is a Python int and is kept unscaled.     *)
(***************************************************************************)
EXTENDS Integers, Sequences, FiniteSets, TLC

\* ------------------------------------------------------------------ bounds
MaxGames == 1
MaxOrders == 2
MaxRequests == 2
MaxServes == 2
MaxBoardGames == 11
MaxTwoGames == 2

\* ------------------------------------------------------------- arithmetic
Max(a, b) == IF a >= b THEN a ELSE b
Min(a, b) == IF a <= b THEN a ELSE b

MoneyPerCent == 1000
TipTenths == 10
RepScale == 20
SatScale == 2520

EmptyMap == [x \in {} |-> 0]
Put(f, k, v) == [x \in (DOMAIN f) \cup {k} |-> IF x = k THEN v ELSE f[x]]
Range(s) == {s[i] : i \in DOMAIN s}

\* ------------------------------------------------------------------ enums
\* RestrictionType, restricted to two of its seven members.
RestrictionType == {"GLUTEN", "VEGAN"}
RestrictionRank(r) == IF r = "GLUTEN" THEN 1 ELSE 2

OrderStatus == {"PENDING", "SERVED", "FAILED"}

\* ---------------------------------------------------------------- GameState
\* GameState(player_id=game_id): the field defaults.
InitialScore == 0
InitialMoney == 100000 * MoneyPerCent
InitialReputation == 50 * RepScale

GameState(game_id) ==
    [player_id        |-> game_id,
     score            |-> InitialScore,
     active_orders    |-> << >>,
     completed_orders |-> 0,
     mistakes         |-> << >>,
     money            |-> InitialMoney,
     reputation       |-> InitialReputation,
     customers        |-> EmptyMap]

VARIABLES
    games,              \* game id -> GameState
    orders,             \* order id -> Order (the Order objects; active_orders holds ids)
    menu_cache,         \* menu key -> list of MenuItem
    consequence_cache,  \* violation -> consequence dict
    requests,           \* request slot -> the suspended handler's locals, or Idle
    last,               \* the request that finished last, with its response
    resolved_count,     \* history: order id -> number of requests that resolved it
    serve_calls,        \* history: number of serve requests that found their order
    served_after,       \* history: order id -> now - created_at (seconds) at its latest serve
    calc                \* the last call of calculate_satisfaction: arguments and result

vars == <<games, orders, menu_cache, consequence_cache, requests, last,
          resolved_count, serve_calls, served_after, calc>>

Slots == 1..MaxRequests
GameIds == 1..MaxGames
OrderIds == 1..MaxOrders

\* ------------------------------------------- the generation collaborator
\* What client.chat.completions.create can do when awaited: raise, return
\* content that does not parse, or return content that parses to a value.
Raise == [kind |-> "raise"]
Unparsable == [kind |-> "unparsable"]
Ok(v) == [kind |-> "ok", value |-> v]

\* Profile contents the collaborator may return (response...message.content).
ProfileContents ==
    { [personality_traits |-> {"IMPATIENT"}, dietary_restrictions |-> <<"VEGAN", "GLUTEN">>,
       patience_level |-> 5, tip_tendency |-> 5],
      [personality_traits |-> {"FOODIE"}, dietary_restrictions |-> << >>,
       patience_level |-> 10, tip_tendency |-> 2],
      [personality_traits |-> {"KAREN"}, dietary_restrictions |-> <<"GLUTEN">>,
       patience_level |-> 5, tip_tendency |-> 9] }

\* Menus the collaborator may return: the "items" of the parsed JSON, each
\* item reduced to its name and price (prices >= 0, in cents).
MenuContents ==
    { << [name |-> "A", price |-> 1200], [name |-> "B", price |-> 800] >> }

\* Consequences the collaborator may return: data["consequence"], a dict
\* that may lack keys.  Impacts: money in cents, score and reputation in points.
ConsequenceContents ==
    { [description |-> "generated", money_impact |-> -200000,
       score_impact |-> -1000, reputation_impact |-> -50],
      [money_impact |-> -5000, score_impact |-> -100],
      [description |-> "generated", score_impact |-> -100] }

ProfileOutcomes == {Raise} \cup {Ok(d) : d \in ProfileContents}
MenuOutcomes == {Raise, Unparsable} \cup {Ok(m) : m \in MenuContents}
ConsequenceOutcomes == {Raise, Unparsable} \cup {Ok(c) : c \in ConsequenceContents}

\* items_served of a serve request.
ServedLists == { <<"A">>, <<"A", "B">> }

\* datetime.now() - order.created_at, in seconds, as read by a serve request.
ElapsedSeconds == {0, 1020, 87420}

\* ------------------------------------------------------------- generators
\* CustomerProfile(...): pydantic validation of the generated fields.
PersonalityTrait ==
    {"PATIENT", "IMPATIENT", "PICKY", "GENEROUS", "INFLUENCER", "KAREN", "REGULAR",
     "FOODIE", "HEALTH_CONSCIOUS"}

ValidProfile(d) ==
    /\ d.personality_traits \subseteq PersonalityTrait
    /\ Range(d.dietary_restrictions) \subseteq RestrictionType
    /\ d.patience_level >= 1 /\ d.patience_level <= 10
    /\ d.tip_tendency >= 0 /\ d.tip_tendency <= 5

\* generate_customer_profile: no try, no fallback.  raised: the call or the
\* construction of CustomerProfile raised.
generate_customer_profile(id, outcome) ==
    IF outcome.kind = "ok" /\ ValidProfile(outcome.value)
    THEN [raised |-> FALSE,
          value  |-> [id                   |-> id,
                      personality_traits   |-> outcome.value.personality_traits,
                      dietary_restrictions |-> outcome.value.dietary_restrictions,
                      patience_threshold   |-> outcome.value.patience_level,
                      tip_tendency         |-> outcome.value.tip_tendency,
                      favorite_items       |-> << >>,
                      total_spent          |-> 0,
                      reviews_given        |-> << >>,
                      satisfaction_history |-> << >>]]
    ELSE [raised |-> TRUE, value |-> << >>]

FallbackMenu == << [name |-> "Safe Default Item", price |-> 999] >>

\* generate_menu_items after its await.  When the call itself raised, the
\* except block reads the unbound local `response` and raises in turn; when
\* the content does not parse, `response` is bound and the fallback is returned.
generate_menu_items(outcome) ==
    CASE outcome.kind = "raise"      -> [raised |-> TRUE, value |-> << >>]
      [] outcome.kind = "unparsable" -> [raised |-> FALSE, value |-> FallbackMenu]
      [] OTHER                       -> [raised |-> FALSE, value |-> outcome.value]

FallbackConsequence ==
    [description |-> "fallback", money_impact |-> -5000, score_impact |-> -100,
     reputation_impact |-> -5]

\* generate_consequence builds its prompt from violation.value before the try:
\* a violation that is the plain string "WRONG_ITEM" raises there, before any await.
ConsequencePromptRaises(violation) == violation \notin RestrictionType

\* generate_consequence after its await (same except block as the menu's).
generate_consequence(outcome) ==
    CASE outcome.kind = "raise"      -> [raised |-> TRUE, value |-> << >>]
      [] outcome.kind = "unparsable" -> [raised |-> FALSE, value |-> FallbackConsequence]
      [] OTHER                       -> [raised |-> FALSE, value |-> outcome.value]

\* ",".join(sorted(r.value for r in restrictions)): the sorted list of tags.
RECURSIVE Insert(_, _)
Insert(r, s) ==
    IF s = << >> THEN <<r>>
    ELSE IF RestrictionRank(r) <= RestrictionRank(Head(s)) THEN <<r>> \o s
    ELSE <<Head(s)>> \o Insert(r, Tail(s))

RECURSIVE menu_key(_)
menu_key(restrictions) ==
    IF restrictions = << >> THEN << >>
    ELSE Insert(Head(restrictions), menu_key(Tail(restrictions)))

RECURSIVE SumPrices(_)
SumPrices(items) ==
    IF items = << >> THEN 0 ELSE Head(items).price * MoneyPerCent + SumPrices(Tail(items))

ItemNames(items) == [i \in DOMAIN items |-> items[i].name]

\* Mutant of NewOrder: customer_id does not name the customer just stored.
NewOrderNoCustomer(id, customer, menu_items) ==
    [id            |-> id,
     customer_id   |-> 0,
     restrictions  |-> customer.dietary_restrictions,
     items_ordered |-> ItemNames(menu_items),
     status        |-> "PENDING",
     wait_time     |-> 0,
     total_price   |-> SumPrices(menu_items)]

\* Order(...) as generate_order builds it.
NewOrder(id, customer, menu_items) ==
    [id            |-> id,
     customer_id   |-> customer.id,
     restrictions  |-> customer.dietary_restrictions,
     items_ordered |-> ItemNames(menu_items),
     status        |-> "PENDING",
     wait_time     |-> 0,
     total_price   |-> SumPrices(menu_items)]

\* ------------------------------------------------- Satisfaction Calculator
\* CustomerManager.calculate_satisfaction; the result is in 1/SatScale points.
\* order_result: [perfect, has_mistakes, dietary_violation] (absent keys are FALSE).
ClampSatisfaction(x) == Max(0, Min(100 * SatScale, x))

calculate_satisfaction(customer, order_result, wait_time) ==
    LET base0 == 70 * SatScale
        base1 == IF "IMPATIENT" \in customer.personality_traits
                 THEN base0 - wait_time * 10 * (SatScale \div customer.patience_threshold)
                 ELSE base0
        base2 == IF order_result.perfect THEN base1 + 20 * SatScale
                 ELSE IF order_result.has_mistakes THEN base1 - 30 * SatScale
                 ELSE base1
        base3 == IF order_result.dietary_violation THEN 0 ELSE base2
    IN  ClampSatisfaction(base3)

\* ------------------------------------------------------------ serve_order
\* (datetime.now() - order.created_at).seconds // 60: timedelta.seconds is the
\* seconds left once whole days are taken out.
WaitTime(elapsed) == (elapsed % 86400) \div 60

\* The violations list: one "WRONG_ITEM" per served item that was not ordered,
\* then, if the random draw fires, random.choice(order.restrictions).
\* Mutant of WrongItems: the membership test is inverted.
RECURSIVE WrongItemsInverted(_, _)
WrongItemsInverted(items_served, items_ordered) ==
    IF items_served = << >> THEN << >>
    ELSE (IF Head(items_served) \in Range(items_ordered) THEN <<"WRONG_ITEM">> ELSE << >>)
         \o WrongItemsInverted(Tail(items_served), items_ordered)

RECURSIVE WrongItems(_, _)
WrongItems(items_served, items_ordered) ==
    IF items_served = << >> THEN << >>
    ELSE (IF Head(items_served) \in Range(items_ordered) THEN << >> ELSE <<"WRONG_ITEM">>)
         \o WrongItems(Tail(items_served), items_ordered)

\* random.choice on an empty list raises IndexError.
ChoiceRaises(order, roll) == roll /\ order.restrictions = << >>

Violations(order, items_served, roll, pick) ==
    WrongItems(items_served, order.items_ordered)
    \o (IF roll THEN <<order.restrictions[pick]>> ELSE << >>)

\* Mutant of SuccessSatisfaction: the clamp to [0,100] is dropped.
SuccessSatisfactionUnclamped(customer, wait_time) ==
    LET base0 == 80 - wait_time * 2
        base1 == IF "IMPATIENT" \in customer.personality_traits
                 THEN base0 - wait_time * 3 ELSE base0
    IN  IF "FOODIE" \in customer.personality_traits THEN base1 + 10 ELSE base1

ViolationSatisfaction(violations) == Max(0, Min(100, 50 - Len(violations) * 20))

SuccessSatisfaction(customer, wait_time) ==
    LET base0 == 80 - wait_time * 2
        base1 == IF "IMPATIENT" \in customer.personality_traits
                 THEN base0 - wait_time * 3 ELSE base0
        base2 == IF "FOODIE" \in customer.personality_traits THEN base1 + 10 ELSE base1
    IN  Max(0, Min(100, base2))

\* Mutant of Tip: the satisfaction is used as a factor, not as a percentage.
TipWholeSatisfaction(order, customer, satisfaction) ==
    (order.total_price * customer.tip_tendency * satisfaction) \div TipTenths

\* tip = order.total_price * customer.tip_tendency * (satisfaction / 100)
Tip(order, customer, satisfaction) ==
    (order.total_price * customer.tip_tendency * satisfaction) \div (TipTenths * 100)

\* Mutant of RemoveOrder: the resolved order stays in the list.
RemoveOrderKept(active_orders, order_id) == active_orders

\* Mutant of RemoveOrder: the filter is inverted and keeps the resolved order only.
RemoveOrderInverted(active_orders, order_id) ==
    SelectSeq(active_orders, LAMBDA o : o = order_id)

\* [o for o in game.active_orders if o.id != order_id]
RemoveOrder(active_orders, order_id) ==
    SelectSeq(active_orders, LAMBDA o : o # order_id)

Review(satisfaction, comment, order_id, incident) ==
    [rating |-> Max(1, satisfaction \div 20), comment |-> comment,
     order_id |-> order_id, incident_reported |-> incident]

\* game.score = max(0, game.score + consequence["score_impact"])
PenalizeScore(score, impact) == Max(0, score + impact)
\* Mutant of PenalizeMoney: the floor at 0 is dropped.
PenalizeMoneyUnfloored(money, impact) == money + impact * MoneyPerCent

\* game.money = max(0, game.money + consequence["money_impact"])
PenalizeMoney(money, impact) == Max(0, money + impact * MoneyPerCent)
\* game.reputation = max(0, min(100, game.reputation + consequence.get("reputation_impact", -5)))
PenalizeReputation(reputation, consequence) ==
    LET impact == IF "reputation_impact" \in DOMAIN consequence
                  THEN consequence.reputation_impact ELSE -5
    IN  Max(0, Min(100 * RepScale, reputation + impact * RepScale))
\* game.reputation = min(100, game.reputation + (satisfaction - 50) / 20)
RewardReputation(reputation, satisfaction) ==
    Min(100 * RepScale, reputation + ((satisfaction - 50) * RepScale) \div 20)

\* for item in items_served: if item not in favorite_items: favorite_items.append(item)
RECURSIVE AddFavorites(_, _)
AddFavorites(favorite_items, items_served) ==
    IF items_served = << >> THEN favorite_items
    ELSE AddFavorites(IF Head(items_served) \in Range(favorite_items)
                      THEN favorite_items
                      ELSE Append(favorite_items, Head(items_served)),
                      Tail(items_served))

\* The violation branch from "Calculate satisfaction" on, run on the game and
\* the order as they are now.  Each assignment is applied in program order; a
\* missing key of the consequence raises KeyError at the statement that reads
\* it, and what was assigned before stays assigned.
\* Result: the game, the order, and whether the branch raised.
ViolationBranch(game, order, order_id, violations, consequence) ==
    LET cid == order.customer_id
        violation == violations[1]
        satisfaction == ViolationSatisfaction(violations)
        has(k) == k \in DOMAIN consequence
        g1 == [game EXCEPT !.customers[cid].satisfaction_history =
                               Append(@, satisfaction)]
        g2 == IF satisfaction < 30
              THEN [g1 EXCEPT !.customers[cid].reviews_given =
                        Append(@, Review(satisfaction, consequence.description,
                                         order_id, TRUE))]
              ELSE g1
        g3 == [g2 EXCEPT !.score = PenalizeScore(@, consequence.score_impact)]
        g4 == [g3 EXCEPT !.money = PenalizeMoney(@, consequence.money_impact)]
        g5 == [g4 EXCEPT !.reputation = PenalizeReputation(@, consequence)]
        g6 == [g5 EXCEPT !.mistakes =
                   Append(@, [order_id |-> order_id, violation |-> violation,
                              consequence |-> consequence.description])]
        g7 == [g6 EXCEPT !.active_orders = RemoveOrder(@, order_id)]
        fail(g) == [raised |-> TRUE, game |-> g, order |-> order,
                    satisfaction |-> satisfaction]
    IN  IF satisfaction < 30 /\ ~has("description") THEN fail(g1)
        ELSE IF ~has("score_impact") THEN fail(g2)
        ELSE IF ~has("money_impact") THEN fail(g3)
        ELSE IF ~has("description") THEN fail(g5)
        ELSE [raised |-> FALSE, game |-> g7,
              order |-> [order EXCEPT !.status = "FAILED"],
              satisfaction |-> satisfaction]

\* The success branch.  Result: the game, the order, satisfaction and tip.
SuccessBranch(game, order, order_id, items_served, wait_time) ==
    LET cid == order.customer_id
        customer == game.customers[cid]
        satisfaction == SuccessSatisfaction(customer, wait_time)
        tip == Tip(order, customer, satisfaction)
        c1 == [customer EXCEPT
                 !.satisfaction_history = Append(@, satisfaction),
                 !.total_spent = @ + order.total_price + tip]
        c2 == IF satisfaction > 80
              THEN [c1 EXCEPT !.favorite_items = AddFavorites(@, items_served)]
              ELSE c1
        c3 == IF satisfaction > 90 \/ satisfaction < 30
              THEN [c2 EXCEPT !.reviews_given =
                        Append(@, Review(satisfaction,
                                         IF satisfaction > 90 THEN "Excellent service!"
                                         ELSE "Disappointing experience",
                                         order_id, satisfaction < 30))]
              ELSE c2
    IN  [game |-> [game EXCEPT
                     !.customers[cid] = c3,
                     !.score = @ + 100 + satisfaction \div 2,
                     !.money = @ + order.total_price + tip,
                     !.completed_orders = @ + 1,
                     !.reputation = RewardReputation(@, satisfaction),
                     !.active_orders = RemoveOrder(@, order_id)],
         order |-> [order EXCEPT !.status = "SERVED"],
         satisfaction |-> satisfaction,
         tip |-> tip]

\* ------------------------------------------------------ requests, responses
Idle ==
    [pc |-> "idle", game_id |-> 0, order_id |-> 0, customer_id |-> 0,
     items_served |-> << >>, violations |-> << >>, roll |-> FALSE]

\* The record of a finished request: what was asked and what was answered
\* (items_served, roll and violations are recorded once the order is found).
\* status 404 and 500 are HTTPException(status_code, detail); found: the game,
\* the order and the customer were all resolved; customer_satisfaction,
\* reward_money and reward_tip are -1 when the response has no such field;
\* generation: how the generation call the request awaited last came back
\* ("none": the request finished without awaiting one); leaderboard: the
\* ids of the games get_leaderboard returned, in the order returned.
NoResponse ==
    [op |-> "none", game_id |-> 0, order_id |-> 0, items_served |-> << >>,
     roll |-> FALSE, violations |-> << >>, found |-> FALSE,
     status |-> 0, detail |-> "", success |-> FALSE,
     customer_satisfaction |-> -1, reward_money |-> -1, reward_tip |-> -1,
     generation |-> "none", leaderboard |-> << >>]

Request(op, game_id) == [NoResponse EXCEPT !.op = op, !.game_id = game_id]

ServeRequest(game_id, order_id, items_served, roll) ==
    [NoResponse EXCEPT !.op = "serve_order", !.game_id = game_id,
                       !.order_id = order_id, !.items_served = items_served,
                       !.roll = roll]

HTTPException(request, status_code, detail) ==
    [request EXCEPT !.status = status_code, !.detail = detail]

\* The arguments and the result of a call of calculate_satisfaction.
NoCall ==
    [state |-> "none",
     customer |-> [personality_traits |-> {}, patience_threshold |-> 5],
     order_result |-> [perfect |-> FALSE, has_mistakes |-> FALSE,
                       dietary_violation |-> FALSE],
     wait_time |-> 0, result |-> -1]

CalcCustomers ==
    { [personality_traits |-> {"IMPATIENT"}, patience_threshold |-> 3],
      [personality_traits |-> {"FOODIE"}, patience_threshold |-> 10] }
CalcOrderResults ==
    [perfect : BOOLEAN, has_mistakes : BOOLEAN, dietary_violation : BOOLEAN]
CalcWaitTimes == {0, 16, 600}

AllCustomers == UNION {DOMAIN games[g].customers : g \in DOMAIN games}
AwaitingProfile == {s \in Slots : requests[s].pc = "await_profile"}

\* A new request takes the first free slot (the slots are interchangeable).
FreeSlot(s) == /\ requests[s].pc = "idle"
               /\ \A t \in Slots : t < s => requests[t].pc # "idle"

Init ==
    /\ games = EmptyMap
    /\ orders = EmptyMap
    /\ menu_cache = EmptyMap
    /\ consequence_cache = EmptyMap
    /\ requests = [s \in Slots |-> Idle]
    /\ last = NoResponse
    /\ resolved_count = [o \in OrderIds |-> 0]
    /\ serve_calls = 0
    /\ served_after = [o \in OrderIds |-> 0]
    /\ calc = NoCall

\* -------------------------------------------------------------- start_game
\* Mutant of FreshGameId: every game gets the id of the first one.
FirstGameId(gs) == 1

\* str(uuid.uuid4()): ids are fresh, modelled as the next unused number.
FreshGameId(gs) == Cardinality(DOMAIN gs) + 1

\* limit: the number of games the specification allows.
StartGame(limit) ==
    /\ Cardinality(DOMAIN games) < limit
    /\ LET game_id == FreshGameId(games)
       IN  /\ games' = Put(games, game_id, GameState(game_id))
           /\ last' = [Request("start_game", game_id) EXCEPT !.status = 200]
    /\ UNCHANGED <<orders, menu_cache, consequence_cache, requests, resolved_count, serve_calls,
                   served_after, calc>>

start_game == StartGame(MaxGames)

\* ---------------------------------------------------------- generate_order
\* From the start of the handler to the await inside generate_customer_profile.
generate_order_begin(s, game_id) ==
    /\ FreeSlot(s)
    /\ IF game_id \notin DOMAIN games
       THEN /\ last' = HTTPException(Request("generate_order", game_id), 404,
                                     "Game not found")
            /\ UNCHANGED requests
       ELSE /\ Cardinality(AllCustomers) + Cardinality(AwaitingProfile) < MaxOrders
            /\ requests' = [requests EXCEPT ![s] =
                               [Idle EXCEPT !.pc = "await_profile", !.game_id = game_id]]
            /\ UNCHANGED last
    /\ UNCHANGED <<games, orders, menu_cache, consequence_cache, resolved_count, serve_calls,
                   served_after, calc>>

\* Order(...), game.active_orders.append(order), return: the end of the handler.
\* gs, cache: games and menu_cache as the handler has left them so far;
\* kind: how the generation call awaited last came back.
CreateOrder(s, gs, cache, game_id, customer_id, kind) ==
    LET customer == gs[game_id].customers[customer_id]
        menu_items == cache[menu_key(customer.dietary_restrictions)]
        order_id == Cardinality(DOMAIN orders) + 1
    IN  /\ orders' = Put(orders, order_id, NewOrder(order_id, customer, menu_items))
        /\ games' = [gs EXCEPT ![game_id].active_orders = Append(@, order_id)]
        /\ menu_cache' = cache
        /\ requests' = [requests EXCEPT ![s] = Idle]
        /\ last' = [Request("generate_order", game_id) EXCEPT
                      !.status = 200, !.order_id = order_id, !.generation = kind]

\* Mutant of StoreCustomer: the customers dict is one object shared by all games.
StoreCustomerShared(gs, game_id, customer_id, customer) ==
    [g \in DOMAIN gs |-> [gs[g] EXCEPT !.customers = Put(@, customer_id, customer)]]

\* game.customers[customer.id] = customer
StoreCustomer(gs, game_id, customer_id, customer) ==
    [gs EXCEPT ![game_id].customers = Put(@, customer_id, customer)]

\* The profile call completes: the profile is built and stored in the game, then
\* the handler runs on to the await inside generate_menu_items, or (menu cached)
\* to its end.  An exception leaves the handler as an unhandled error (500).
generate_order_profile(s, outcome) ==
    /\ requests[s].pc = "await_profile"
    /\ LET game_id == requests[s].game_id
           customer_id == Cardinality(AllCustomers) + 1
           r == generate_customer_profile(customer_id, outcome)
           gs == StoreCustomer(games, game_id, customer_id, r.value)
       IN  IF r.raised
           THEN /\ last' = HTTPException([Request("generate_order", game_id) EXCEPT
                                            !.generation = outcome.kind],
                                         500, "Internal Server Error")
                /\ requests' = [requests EXCEPT ![s] = Idle]
                /\ UNCHANGED <<games, orders, menu_cache>>
           ELSE IF menu_key(r.value.dietary_restrictions) \notin DOMAIN menu_cache
           THEN /\ games' = gs
                /\ requests' = [requests EXCEPT ![s].pc = "await_menu",
                                                ![s].customer_id = customer_id]
                /\ UNCHANGED <<orders, menu_cache, last>>
           ELSE CreateOrder(s, gs, menu_cache, game_id, customer_id, outcome.kind)
    /\ UNCHANGED <<consequence_cache, resolved_count, serve_calls, served_after, calc>>

\* The menu call completes: menu_cache[menu_key] = ..., then the order is created.
generate_order_menu(s, outcome) ==
    /\ requests[s].pc = "await_menu"
    /\ LET game_id == requests[s].game_id
           customer_id == requests[s].customer_id
           key == menu_key(games[game_id].customers[customer_id].dietary_restrictions)
           r == generate_menu_items(outcome)
       IN  IF r.raised
           THEN /\ last' = HTTPException([Request("generate_order", game_id) EXCEPT
                                            !.generation = outcome.kind],
                                         500, "Internal Server Error")
                /\ requests' = [requests EXCEPT ![s] = Idle]
                /\ UNCHANGED <<games, orders, menu_cache>>
           ELSE CreateOrder(s, games, Put(menu_cache, key, r.value), game_id, customer_id,
                            outcome.kind)
    /\ UNCHANGED <<consequence_cache, resolved_count, serve_calls, served_after, calc>>

\* ------------------------------------------------------------- serve_order
\* The violation branch once the consequence is at hand, to the end of the handler.
\* os, cache: orders and consequence_cache as the handler has left them so far.
FinishViolation(s, request, os, cache, violations, consequence) ==
    LET game_id == request.game_id
        order_id == request.order_id
        r == ViolationBranch(games[game_id], os[order_id], order_id, violations,
                             consequence)
    IN  /\ games' = [games EXCEPT ![game_id] = r.game]
        /\ orders' = [os EXCEPT ![order_id] = r.order]
        /\ consequence_cache' = cache
        /\ requests' = [requests EXCEPT ![s] = Idle]
        /\ IF r.raised
           THEN /\ last' = HTTPException(request, 500, "Error processing violation")
                /\ UNCHANGED resolved_count
           ELSE /\ last' = [request EXCEPT !.status = 200, !.success = FALSE,
                                           !.customer_satisfaction = r.satisfaction]
                /\ resolved_count' = [resolved_count EXCEPT ![order_id] = @ + 1]

FinishSuccess(s, request, os, wait_time) ==
    LET game_id == request.game_id
        order_id == request.order_id
        r == SuccessBranch(games[game_id], os[order_id], order_id,
                           request.items_served, wait_time)
    IN  /\ games' = [games EXCEPT ![game_id] = r.game]
        /\ orders' = [os EXCEPT ![order_id] = r.order]
        /\ requests' = [requests EXCEPT ![s] = Idle]
        /\ last' = [request EXCEPT !.status = 200, !.success = TRUE,
                                   !.customer_satisfaction = r.satisfaction,
                                   !.reward_money = os[order_id].total_price + r.tip,
                                   !.reward_tip = r.tip]
        /\ resolved_count' = [resolved_count EXCEPT ![order_id] = @ + 1]
        /\ UNCHANGED consequence_cache

\* The handler fails before it has assigned anything but order.wait_time.
FailServe(request, os, status_code, detail) ==
    /\ last' = HTTPException(request, status_code, detail)
    /\ orders' = os
    /\ UNCHANGED <<games, consequence_cache, requests, resolved_count>>

\* From the start of the handler to the await inside generate_consequence, or
\* (no violation, consequence cached, or an exception) to its end.
\* elapsed: now - created_at in seconds; roll: random.random() < 0.3;
\* pick: the index random.choice takes.
serve_order_begin(s, game_id, order_id, items_served, elapsed, roll) ==
    /\ FreeSlot(s)
    /\ LET request == ServeRequest(game_id, order_id, items_served, roll)
           unresolved == ServeRequest(game_id, order_id, << >>, FALSE)
       IN  IF game_id \notin DOMAIN games
           THEN /\ FailServe(unresolved, orders, 404, "Game not found")
                /\ UNCHANGED <<serve_calls, served_after>>
           ELSE IF order_id \notin Range(games[game_id].active_orders)
           THEN /\ FailServe(unresolved, orders, 404, "Order not found")
                /\ UNCHANGED <<serve_calls, served_after>>
           ELSE
             LET wait_time == WaitTime(elapsed)
                 os == [orders EXCEPT ![order_id].wait_time = wait_time]
                 order == os[order_id]
                 resolved == [request EXCEPT !.found = TRUE]
             IN  /\ serve_calls < MaxServes
                 /\ serve_calls' = serve_calls + 1
                 /\ served_after' = [served_after EXCEPT ![order_id] = elapsed]
                 /\ IF order.customer_id \notin DOMAIN games[game_id].customers
                    THEN FailServe(unresolved, os, 404, "Customer not found")
                    ELSE IF ChoiceRaises(order, roll)
                    THEN FailServe(resolved, os, 500, "An unexpected error occurred")
                    ELSE \E pick \in (IF roll THEN DOMAIN order.restrictions ELSE {1}) :
                      LET violations == Violations(order, items_served, roll, pick)
                          req == [resolved EXCEPT !.violations = violations]
                      IN  IF violations = << >>
                          THEN FinishSuccess(s, req, os, wait_time)
                          ELSE IF violations[1] \in DOMAIN consequence_cache
                          THEN FinishViolation(s, req, os, consequence_cache, violations,
                                               consequence_cache[violations[1]])
                          ELSE IF ConsequencePromptRaises(violations[1])
                          THEN FailServe(req, os, 500, "Error processing violation")
                          ELSE /\ requests' = [requests EXCEPT ![s] =
                                      [Idle EXCEPT !.pc = "await_consequence",
                                                   !.game_id = game_id,
                                                   !.order_id = order_id,
                                                   !.items_served = items_served,
                                                   !.violations = violations,
                                                   !.roll = roll]]
                               /\ orders' = os
                               /\ UNCHANGED <<games, consequence_cache, last,
                                              resolved_count>>
    /\ UNCHANGED <<menu_cache, calc>>

\* The consequence call completes: consequence_cache[violation] = consequence,
\* then the rest of the violation branch.
serve_order_consequence(s, outcome) ==
    /\ requests[s].pc = "await_consequence"
    /\ LET rq == requests[s]
           request == [ServeRequest(rq.game_id, rq.order_id, rq.items_served, rq.roll)
                         EXCEPT !.found = TRUE, !.violations = rq.violations,
                                !.generation = outcome.kind]
           r == generate_consequence(outcome)
       IN  IF r.raised
           THEN /\ last' = HTTPException(request, 500, "Error processing violation")
                /\ requests' = [requests EXCEPT ![s] = Idle]
                /\ UNCHANGED <<games, orders, consequence_cache, resolved_count>>
           ELSE FinishViolation(s, request, orders,
                                Put(consequence_cache, rq.violations[1], r.value),
                                rq.violations, r.value)
    /\ UNCHANGED <<menu_cache, serve_calls, served_after, calc>>

\* ------------------------------------------------------------ the system
\* A request may name a game or an order that does not exist (id 0).  The
\* inputs a handler does not read before it fails are not enumerated.
Active(game_id, order_id) ==
    /\ game_id \in DOMAIN games
    /\ order_id \in Range(games[game_id].active_orders)

Next ==
    \/ start_game
    \/ \E s \in Slots, game_id \in DOMAIN games \cup {0} : generate_order_begin(s, game_id)
    \/ \E s \in Slots, outcome \in ProfileOutcomes : generate_order_profile(s, outcome)
    \/ \E s \in Slots, outcome \in MenuOutcomes : generate_order_menu(s, outcome)
    \/ \E s \in Slots, game_id \in DOMAIN games, order_id \in DOMAIN orders,
          items_served \in ServedLists, elapsed \in ElapsedSeconds, roll \in BOOLEAN :
          /\ Active(game_id, order_id)
          /\ serve_order_begin(s, game_id, order_id, items_served, elapsed, roll)
    \/ \E s \in Slots, game_id \in DOMAIN games \cup {0}, order_id \in DOMAIN orders \cup {0} :
          /\ ~Active(game_id, order_id)
          /\ game_id = 0 => order_id = 0
          /\ serve_order_begin(s, game_id, order_id, << >>, 0, FALSE)
    \/ \E s \in Slots, outcome \in ConsequenceOutcomes : serve_order_consequence(s, outcome)

Spec == Init /\ [][Next]_vars

\* ------------------------------------------- the calculator on its own
\* calculate_satisfaction is called by no handler.  SpecSat adds a caller: a
\* behaviour either runs the handlers (calc stays NoCall) or starts with the
\* arguments of one call, drawn from the sets above, and makes that call.
calculate_satisfaction_call ==
    /\ calc.state = "called"
    /\ calc' = [calc EXCEPT !.state = "returned",
                            !.result = calculate_satisfaction(calc.customer,
                                           calc.order_result, calc.wait_time)]
    /\ UNCHANGED <<games, orders, menu_cache, consequence_cache, requests, last,
                   resolved_count, serve_calls, served_after>>

InitSat ==
    /\ games = EmptyMap
    /\ orders = EmptyMap
    /\ menu_cache = EmptyMap
    /\ consequence_cache = EmptyMap
    /\ requests = [s \in Slots |-> Idle]
    /\ last = NoResponse
    /\ resolved_count = [o \in OrderIds |-> 0]
    /\ serve_calls = 0
    /\ served_after = [o \in OrderIds |-> 0]
    /\ calc \in {NoCall} \cup
                { [state |-> "called", customer |-> c, order_result |-> r,
                   wait_time |-> w, result |-> -1] :
                  c \in CalcCustomers, r \in CalcOrderResults, w \in CalcWaitTimes }

NextSat ==
    \/ calc.state = "none" /\ Next
    \/ calculate_satisfaction_call

SpecSat == InitSat /\ [][NextSat]_vars

\* ------------------------------------------------------- the leaderboard
\* get_leaderboard and start_game over many games.  SpecBoard starts from a
\* store of up to MaxBoardGames games, each either fresh or played once: one
\* order generated (FOODIE customer, no restrictions, the fallback menu) and
\* served successfully at once.
LeaderboardSize == 10

\* Mutant of InsertGame: the game is appended whatever its score.
InsertGameLast(gs, game_id, sorted) == Append(sorted, game_id)

\* sorted(games.values(), key=lambda x: x.score, reverse=True): a stable sort,
\* so a game goes behind the games of equal score that precede it in the dict.
RECURSIVE InsertGame(_, _, _)
InsertGame(gs, game_id, sorted) ==
    IF sorted = << >> THEN <<game_id>>
    ELSE IF gs[Head(sorted)].score >= gs[game_id].score
    THEN <<Head(sorted)>> \o InsertGame(gs, game_id, Tail(sorted))
    ELSE <<game_id>> \o sorted

\* The first n games of the dict (ids in insertion order), sorted.
RECURSIVE SortedGames(_, _)
SortedGames(gs, n) ==
    IF n = 0 THEN << >> ELSE InsertGame(gs, n, SortedGames(gs, n - 1))

\* sorted(...)[:10]
Leaderboard(gs) ==
    LET sorted == SortedGames(gs, Cardinality(DOMAIN gs))
    IN  SubSeq(sorted, 1, Min(LeaderboardSize, Len(sorted)))

get_leaderboard ==
    /\ last' = [Request("get_leaderboard", 0) EXCEPT
                  !.status = 200, !.leaderboard = Leaderboard(games)]
    /\ UNCHANGED <<games, orders, menu_cache, consequence_cache, requests, resolved_count,
                   serve_calls, served_after, calc>>

BoardProfile ==
    [personality_traits |-> {"FOODIE"}, dietary_restrictions |-> << >>,
     patience_level |-> 10, tip_tendency |-> 2]
BoardCustomer(id) == generate_customer_profile(id, Ok(BoardProfile)).value
BoardMenu == generate_menu_items(Unparsable).value
BoardOrder(id) == NewOrder(id, BoardCustomer(id), BoardMenu)

\* Game id after generate_order (customer id, order id) and a successful serve.
Played(id) ==
    SuccessBranch([GameState(id) EXCEPT !.customers = Put(@, id, BoardCustomer(id)),
                                        !.active_orders = Append(@, id)],
                  BoardOrder(id), id, ItemNames(BoardMenu), WaitTime(0))

InitBoard ==
    \E n \in 0..MaxBoardGames : \E played \in SUBSET (1..n) :
        /\ games = [g \in 1..n |-> IF g \in played THEN Played(g).game ELSE GameState(g)]
        /\ orders = [o \in played |-> Played(o).order]
        /\ menu_cache = IF played = {} THEN EmptyMap
                        ELSE Put(EmptyMap, menu_key(BoardProfile.dietary_restrictions),
                                 BoardMenu)
        /\ consequence_cache = EmptyMap
        /\ requests = [s \in Slots |-> Idle]
        /\ last = NoResponse
        /\ resolved_count = [o \in 1..MaxBoardGames |-> IF o \in played THEN 1 ELSE 0]
        /\ serve_calls = Cardinality(played)
        /\ served_after = [o \in 1..MaxBoardGames |-> 0]
        /\ calc = NoCall

NextBoard ==
    \/ StartGame(MaxBoardGames)
    \/ get_leaderboard

SpecBoard == InitBoard /\ [][NextBoard]_vars

\* ------------------------------------------------------------- two games
\* The handlers over two games, with the generated profile and menu narrowed
\* to one content each (the call succeeding or raising) and every serve made
\* at once (no wait); consequences and served lists as in Spec.
TwoProfileOutcomes ==
    {Raise, Ok([personality_traits |-> {"IMPATIENT"},
                dietary_restrictions |-> <<"VEGAN", "GLUTEN">>,
                patience_level |-> 5, tip_tendency |-> 5])}
TwoMenuOutcomes == {Raise} \cup {Ok(m) : m \in MenuContents}
TwoConsequenceOutcomes == ConsequenceOutcomes

NextTwo ==
    \/ StartGame(MaxTwoGames)
    \/ \E s \in Slots, game_id \in DOMAIN games : generate_order_begin(s, game_id)
    \/ \E s \in Slots, outcome \in TwoProfileOutcomes : generate_order_profile(s, outcome)
    \/ \E s \in Slots, outcome \in TwoMenuOutcomes : generate_order_menu(s, outcome)
    \/ \E s \in Slots, game_id \in DOMAIN games, order_id \in DOMAIN orders,
          items_served \in ServedLists, roll \in BOOLEAN :
          /\ Active(game_id, order_id)
          /\ serve_order_begin(s, game_id, order_id, items_served, 0, roll)
    \/ \E s \in Slots, outcome \in TwoConsequenceOutcomes :
          serve_order_consequence(s, outcome)

SpecTwo == Init /\ [][NextTwo]_vars

\* ================================================================ claims
ServeFinished == last.op = "serve_order" /\ last.found
ActiveOrders(game_id) == Range(games[game_id].active_orders)
HistoryOf(game_id, order_id) ==
    games[game_id].customers[orders[order_id].customer_id].satisfaction_history

\* C1: of the serve requests that name the same order, at most one resolves it
\* (returns a success or violation outcome and applies its updates).
C1_AtMostOneResolves == \A o \in OrderIds : resolved_count[o] <= 1

\* C2: when a serve request that resolved its game, order and customer has
\* finished, the order is no longer in active_orders, whichever path it took.
C2_ServedOrderLeavesActive ==
    ServeFinished => last.order_id \notin ActiveOrders(last.game_id)

\* C3: once an order's status is SERVED or FAILED it never changes again, and
\* an order whose status is SERVED or FAILED is not in active_orders.
C3_StatusChangesOnce ==
    [][\A o \in DOMAIN orders :
          /\ orders[o].status # "PENDING" => orders'[o].status = orders[o].status
          /\ orders'[o].status # "PENDING" =>
                 \A g \in DOMAIN games' : o \notin Range(games'[g].active_orders)]_vars

\* C4: a serve request that serves only ordered items but omits at least one
\* of them resolves the order as a violation: success=false, status FAILED,
\* a mistake recorded, the order removed.
Omits(items_served, items_ordered) ==
    /\ Range(items_served) \subseteq Range(items_ordered)
    /\ Range(items_served) # Range(items_ordered)

C4_MissingItemIsViolation ==
    (/\ ServeFinished
     /\ last.status = 200
     /\ Omits(last.items_served, orders[last.order_id].items_ordered))
    => /\ ~last.success
       /\ orders[last.order_id].status = "FAILED"
       /\ \E i \in DOMAIN games[last.game_id].mistakes :
              games[last.game_id].mistakes[i].order_id = last.order_id
       /\ last.order_id \notin ActiveOrders(last.game_id)

\* C5: a step in which a serve request ends with an internal error (500)
\* changes neither the game state (customers included) nor any order.
C5_ErrorLeavesStateUnchanged ==
    [][(last' # last /\ last'.op = "serve_order" /\ last'.status = 500)
          => (games' = games /\ orders' = orders)]_vars

\* C6: every game's money and score are >= 0 in every reachable state.
C6_MoneyScoreNonNegative ==
    \A g \in DOMAIN games : games[g].money >= 0 /\ games[g].score >= 0

\* A violation serve whose impacts exceed the money and the score at hand.
C6_Witness ==
    \E g \in DOMAIN games :
        /\ games[g].mistakes # << >>
        /\ games[g].money = 0
        /\ games[g].score = 0
        /\ \E v \in DOMAIN consequence_cache :
               /\ InitialMoney + consequence_cache[v].money_impact * MoneyPerCent < 0
               /\ InitialScore + consequence_cache[v].score_impact < 0

\* C7: every game's reputation lies in [0,100] in every reachable state.
C7_ReputationInRange ==
    \A g \in DOMAIN games :
        games[g].reputation >= 0 /\ games[g].reputation <= 100 * RepScale

\* C8: calculate_satisfaction returns 0 whenever dietary_violation is set, and a
\* serve request that records a dietary-restriction violation reports 0 and
\* appends 0 to the customer's satisfaction_history.
DietaryViolationRecorded ==
    /\ ServeFinished
    /\ last.status = 200
    /\ \E i \in DOMAIN last.violations : last.violations[i] \in RestrictionType

C8_DietaryViolationZero ==
    /\ (calc.state = "returned" /\ calc.order_result.dietary_violation)
           => calc.result = 0
    /\ DietaryViolationRecorded =>
           /\ last.customer_satisfaction = 0
           /\ LET h == HistoryOf(last.game_id, last.order_id) IN h[Len(h)] = 0

\* C9: every satisfaction value computed lies in [0,100]: the result of
\* calculate_satisfaction, the customer_satisfaction of every serve response,
\* and every entry of every satisfaction_history.
C9_SatisfactionInRange ==
    /\ calc.state = "returned" => calc.result >= 0 /\ calc.result <= 100 * SatScale
    /\ (last.op = "serve_order" /\ last.status = 200) =>
           last.customer_satisfaction >= 0 /\ last.customer_satisfaction <= 100
    /\ \A g \in DOMAIN games : \A c \in DOMAIN games[g].customers :
           \A i \in DOMAIN games[g].customers[c].satisfaction_history :
               /\ games[g].customers[c].satisfaction_history[i] >= 0
               /\ games[g].customers[c].satisfaction_history[i] <= 100

\* A success serve whose wait penalty exceeds the base: 80 - 2*17 - 3*17 < 0.
C9_Witness ==
    /\ ServeFinished /\ last.status = 200 /\ last.success
    /\ last.customer_satisfaction = 0
    /\ orders[last.order_id].wait_time = 17
    /\ LET h == HistoryOf(last.game_id, last.order_id) IN h[Len(h)] = 0

\* C10: once an order has been resolved, a serve request that starts later
\* and names it does not get past the order lookup: it ends with 404 and
\* leaves the games, the orders and the caches as they were.
C10_ResolvedOrderNotFound ==
    [][\A o \in DOMAIN orders : resolved_count[o] > 0 =>
          /\ \A s \in Slots :
                 (requests[s].pc = "idle" /\ requests'[s].pc = "await_consequence")
                     => requests'[s].order_id # o
          /\ (requests' = requests /\ last'.op = "serve_order" /\ last'.order_id = o)
                 => /\ last'.status = 404
                    /\ games' = games /\ orders' = orders
                    /\ consequence_cache' = consequence_cache
                    /\ resolved_count' = resolved_count]_vars

\* A later serve request on a resolved order has been answered "Order not found".
C10_Witness ==
    /\ last.op = "serve_order" /\ last.status = 404
    /\ last.detail = "Order not found"
    /\ last.order_id \in DOMAIN orders
    /\ resolved_count[last.order_id] > 0
    /\ orders[last.order_id].status # "PENDING"

\* C11: a serve request on an active order whose served items are all ordered
\* and whose random draw does not fire returns success=true, sets the status to
\* SERVED, removes the order from active_orders, adds exactly 1 to
\* completed_orders and adds no mistake record.
C11_ExactServeSucceeds ==
    [][\A g \in DOMAIN games : \A o \in Range(games[g].active_orders) :
          (/\ last' # last
           /\ last'.op = "serve_order" /\ last'.found
           /\ last'.game_id = g /\ last'.order_id = o
           /\ Range(last'.items_served) \subseteq Range(orders[o].items_ordered)
           /\ ~last'.roll)
          => /\ last'.status = 200 /\ last'.success
             /\ orders'[o].status = "SERVED"
             /\ o \notin Range(games'[g].active_orders)
             /\ games'[g].completed_orders = games[g].completed_orders + 1
             /\ games'[g].mistakes = games[g].mistakes]_vars

\* A serve of exactly the ordered items, without injection, has succeeded.
C11_Witness ==
    /\ ServeFinished /\ ~last.roll /\ last.success
    /\ last.items_served = orders[last.order_id].items_ordered
    /\ orders[last.order_id].status = "SERVED"
    /\ games[last.game_id].completed_orders = 1
    /\ last.order_id \notin ActiveOrders(last.game_id)

C13_GenerationFailureRecovered ==
    last.generation \in {"raise", "unparsable"} =>
        /\ last.status = 200
        /\ last.op = "generate_order" =>
               menu_cache[menu_key(orders[last.order_id].restrictions)] = FallbackMenu
        /\ last.op = "serve_order" =>
               consequence_cache[last.violations[1]] = FallbackConsequence

\* C14: the wait_time stored on an order is the number of whole minutes between
\* its creation and its latest serve, durations of a day or more included.
C14_WaitTimeIsElapsedMinutes ==
    \A o \in DOMAIN orders : orders[o].wait_time = served_after[o] \div 60

\* C15: over n games the leaderboard returns exactly min(n,10) games, in
\* non-increasing order of score, no game left out has a score above that of a
\* game returned, and the request changes no game.
C15_LeaderboardTopTen ==
    [][last'.op = "get_leaderboard" =>
          LET board == last'.leaderboard
              n == Cardinality(DOMAIN games)
          IN  /\ games' = games
              /\ Len(board) = Min(n, 10)
              /\ Range(board) \subseteq DOMAIN games
              /\ \A i, j \in DOMAIN board :
                     /\ i # j => board[i] # board[j]
                     /\ i < j => games[board[i]].score >= games[board[j]].score
              /\ \A g \in DOMAIN games \ Range(board) : \A i \in DOMAIN board :
                     games[g].score <= games[board[i]].score]_vars

\* A leaderboard over 11 games that holds played and fresh games and leaves
\* a fresh one out.
C15_Witness ==
    /\ last.op = "get_leaderboard"
    /\ Cardinality(DOMAIN games) = 11
    /\ Len(last.leaderboard) = 10
    /\ games[last.leaderboard[1]].score > games[last.leaderboard[10]].score
    /\ \E g \in DOMAIN games : g \notin Range(last.leaderboard)

\* C16: start_game adds one GameState under a fresh id, with active_orders
\* empty, money 1000.0, reputation 50.0, score 0, completed_orders 0 and no
\* mistakes, and leaves every existing game as it was.
C16_StartGameFresh ==
    [][(last' # last /\ last'.op = "start_game") =>
          LET id == last'.game_id
          IN  /\ id \notin DOMAIN games
              /\ DOMAIN games' = DOMAIN games \cup {id}
              /\ games'[id].active_orders = << >>
              /\ games'[id].money = 100000 * MoneyPerCent
              /\ games'[id].reputation = 50 * RepScale
              /\ games'[id].score = 0
              /\ games'[id].completed_orders = 0
              /\ games'[id].mistakes = << >>
              /\ \A g \in DOMAIN games : games'[g] = games[g]]_vars

\* A game has been started next to a game that has been played.
C16_Witness ==
    /\ last.op = "start_game"
    /\ games[last.game_id] = GameState(last.game_id)
    /\ \E g \in DOMAIN games :
           g # last.game_id /\ games[g].score > 0 /\ games[g].completed_orders = 1

\* C17: for every cache key, at most one generation call is in flight at any
\* time: two requests that miss the same menu key, or the same violation type,
\* are never both suspended at the generation call for it.
MenuKeyAwaited(s) ==
    menu_key(games[requests[s].game_id].customers[requests[s].customer_id]
                 .dietary_restrictions)

C17_OneGenerationPerKey ==
    \A s, t \in Slots : s # t =>
        /\ ~(/\ requests[s].pc = "await_menu" /\ requests[t].pc = "await_menu"
             /\ MenuKeyAwaited(s) = MenuKeyAwaited(t))
        /\ ~(/\ requests[s].pc = "await_consequence"
             /\ requests[t].pc = "await_consequence"
             /\ requests[s].violations[1] = requests[t].violations[1])

\* C18: an entry of the menu cache is never replaced, and an order created for
\* a key whose entry already exists has the items and the total price of that
\* entry.
C18_MenuEntryNeverReplaced ==
    [][/\ \A k \in DOMAIN menu_cache : menu_cache'[k] = menu_cache[k]
       /\ \A o \in DOMAIN orders' \ DOMAIN orders :
              LET k == menu_key(orders'[o].restrictions)
              IN  k \in DOMAIN menu_cache =>
                      /\ orders'[o].items_ordered = ItemNames(menu_cache[k])
                      /\ orders'[o].total_price = SumPrices(menu_cache[k])]_vars

\* C19: in every state another request can observe (between requests and at
\* every await), every order in a game's active_orders has status PENDING.
C19_ActiveOrdersPending ==
    \A g \in DOMAIN games : \A o \in ActiveOrders(g) : orders[o].status = "PENDING"

\* A serve is suspended at its await on an active order while another order of
\* the game has been resolved and removed.
C19_Witness ==
    \E s \in Slots :
        /\ requests[s].pc = "await_consequence"
        /\ requests[s].order_id \in ActiveOrders(requests[s].game_id)
        /\ orders[requests[s].order_id].status = "PENDING"
        /\ \E o \in DOMAIN orders :
               /\ orders[o].status # "PENDING"
               /\ o \notin ActiveOrders(requests[s].game_id)

\* C20: the customer_id of every order in a game's active_orders is a key of
\* that game's customers, and no serve request ends with "Customer not found".
C20_ActiveOrderHasCustomer ==
    /\ \A g \in DOMAIN games : \A o \in ActiveOrders(g) :
           orders[o].customer_id \in DOMAIN games[g].customers
    /\ last.detail # "Customer not found"

\* A serve request has passed the customer lookup of an order that is still active.
C20_Witness ==
    /\ ServeFinished
    /\ last.order_id \in ActiveOrders(last.game_id)
    /\ orders[last.order_id].customer_id \in DOMAIN games[last.game_id].customers

\* C21: a generate-order request that does not complete successfully (game not
\* found, profile or menu generation raising) leaves the game as it was when
\* the request began: its customer is not in the customers map and no order
\* has been added to active_orders.
C21_FailedGenerateLeavesGame ==
    [][/\ (last' # last /\ last'.op = "generate_order" /\ last'.status = 404)
              => games' = games
       /\ \A s \in Slots :
              (/\ requests[s].pc \in {"await_profile", "await_menu"}
               /\ requests'[s].pc = "idle"
               /\ last'.status # 200)
              => LET g == requests[s].game_id
                 IN  /\ games'[g].active_orders = games[g].active_orders
                     /\ requests[s].pc = "await_profile"
                            => games'[g].customers = games[g].customers
                     /\ requests[s].pc = "await_menu"
                            => requests[s].customer_id \notin DOMAIN games'[g].customers]_vars

\* C22: a generate-order or serve-order request addressed to one game changes
\* the GameState of no other game: a step changes only the game named by the
\* request that takes it.
Addressed(g) ==
    \/ \E s \in Slots : /\ requests'[s] # requests[s]
                        /\ g \in {requests[s].game_id, requests'[s].game_id}
    \/ last' # last /\ last'.game_id = g
    \/ requests' = requests /\ last' = last /\ last.game_id = g

C22_OtherGamesUnchanged ==
    [][\A g \in DOMAIN games : games'[g] # games[g] => Addressed(g)]_vars

\* Both games have taken an order, and one of them has been served.
C22_Witness ==
    /\ DOMAIN games = {1, 2}
    /\ games[1].customers # EmptyMap /\ games[2].customers # EmptyMap
    /\ \E g \in DOMAIN games : games[g].completed_orders = 1
    /\ \E g \in DOMAIN games : games[g].active_orders # << >>

====
